---- MODULE Spec2Model ----
(***************************************************************************)
(* A model of python/lisp.py: the lexer, the parser with its top-level     *)
(* driver, and the evaluator with its seven builtins.                      *)
(*                                                                         *)
(* Text is a sequence of one-character strings.  Python indices are kept   *)
(* 0-based (At reads them).  An uncaught Python exception is the name of   *)
(* its type, followed by the message prefix when the code raises it        *)
(* itself; "" is no exception.  Nothing catches an exception: err holds it *)
(* and pc stays where it was raised.                                       *)
(*                                                                         *)
(* The loops and the recursion of the code are run one step per action:    *)
(* pstack holds the calls of parse in progress, estack the calls of the    *)
(* evaluator in progress, ctl what the evaluator does next, and dicts the  *)
(* dict objects alive, a ctx being an index into dicts.                    *)
(***************************************************************************)
EXTENDS Integers, Sequences, FiniteSets, TLC

VARIABLES program, pc, i, tokens, pstack, start, cursor, child, begin,
          estack, ctl, dicts, result, err, stdout

vars == <<program, pc, i, tokens, pstack, start, cursor, child, begin,
          estack, ctl, dicts, result, err, stdout>>

(***************************************************************************)
(* Bounds                                                                  *)
(***************************************************************************)
MaxLen == 5
MaxDepth == 64
MaxArg == 2
MaxN == 3

(***************************************************************************)
(* Characters and slices                                                   *)
(***************************************************************************)
At(s, k) == s[k + 1]

Slice(s, a, b) == [k \in 1..(b - a) |-> s[a + k]]

Digits == {"0", "1", "2", "3", "4", "5", "6", "7", "8", "9"}

Lower == {"a", "b", "c", "d", "e", "f", "g", "h", "i", "j", "k", "l", "m",
          "n", "o", "p", "q", "r", "s", "t", "u", "v", "w", "x", "y", "z"}

Upper == {"A", "B", "C", "D", "E", "F", "G", "H", "I", "J", "K", "L", "M",
          "N", "O", "P", "Q", "R", "S", "T", "U", "V", "W", "X", "Y", "Z"}

Operators == {"+", "-", "*", "&", "$", "%", "<", "="}

Whitespace == {" ", "\n", "\t", "\r"}

(***************************************************************************)
(* Token, Sexp                                                             *)
(***************************************************************************)
Token(value, kind) == [value |-> value, kind |-> kind]

\* the None held by the atom field of a PAIR
NoToken == [value |-> <<>>, kind |-> "NONE"]

\* the None held by the pair field of an ATOM
NoPair == <<>>

Sexp(kind, atom, pair) == [kind |-> kind, atom |-> atom, pair |-> pair]

\* the None that stands where a Sexp is expected
None == [kind |-> "NONE", atom |-> NoToken, pair |-> NoPair]

(***************************************************************************)
(* Sexp.pretty: the text, or an AttributeError at a None head              *)
(***************************************************************************)
RECURSIVE pretty(_)
pretty(self) ==
    IF self.kind = "NONE" THEN [err |-> "AttributeError", text |-> <<>>]
    ELSE IF self.kind = "ATOM" THEN [err |-> "", text |-> self.atom.value]
    ELSE LET h == pretty(self.pair[1])
         IN  IF h.err # "" THEN h
             ELSE IF self.pair[2].kind = "NONE"
                  THEN [err |-> "",
                        text |-> <<"(">> \o h.text \o <<" ", ".", " ", "N", "I", "L", ")">>]
                  ELSE LET t == pretty(self.pair[2])
                       IN  IF t.err # "" THEN t
                           ELSE [err |-> "",
                                 text |-> <<"(">> \o h.text \o <<" ", ".", " ">>
                                          \o t.text \o <<")">>]

(***************************************************************************)
(* sexp_append                                                             *)
(***************************************************************************)
\* a mutant of sexp_append: a PAIR is wrapped like an ATOM, not walked to its end
sexp_append_wrap(first, second) ==
    IF first.kind = "NONE" THEN Sexp("PAIR", NoToken, <<second, None>>)
    ELSE Sexp("PAIR", NoToken, <<first, second>>)

RECURSIVE sexp_append(_, _)
sexp_append(first, second) ==
    IF first.kind = "NONE" THEN Sexp("PAIR", NoToken, <<second, None>>)
    ELSE IF first.kind = "ATOM" THEN Sexp("PAIR", NoToken, <<first, second>>)
    ELSE Sexp("PAIR", NoToken, <<first.pair[1], sexp_append(first.pair[2], second)>>)

(***************************************************************************)
(* Lexer.  A scan returns the end index, or an IndexError when it reads    *)
(* program[len(program)].                                                  *)
(***************************************************************************)
RECURSIVE scan_integer(_, _)
scan_integer(prog, end) ==
    IF end >= Len(prog) THEN [err |-> "IndexError", end |-> end]
    ELSE IF At(prog, end) \in Digits THEN scan_integer(prog, end + 1)
    ELSE [err |-> "", end |-> end]

lex_integer(prog, cur) ==
    LET s == scan_integer(prog, cur)
    IN  [err |-> s.err, end |-> s.end,
         token |-> IF s.err = "" THEN Token(Slice(prog, cur, s.end), "INTEGER")
                   ELSE NoToken]

RECURSIVE scan_identifier(_, _, _)
scan_identifier(prog, cur, end) ==
    IF end >= Len(prog) THEN [err |-> "IndexError", end |-> end]
    ELSE LET c == At(prog, end)
         IN  IF \/ c \in Lower
                \/ c \in Upper
                \/ c \in Operators
                \/ (end > cur /\ c \in Digits)
             THEN scan_identifier(prog, cur, end + 1)
             ELSE [err |-> "", end |-> end]

lex_identifier(prog, cur) ==
    LET s == scan_identifier(prog, cur, cur)
    IN  [err |-> s.err, end |-> s.end,
         token |-> IF s.err = "" THEN Token(Slice(prog, cur, s.end), "IDENTIFIER")
                   ELSE NoToken]

\* one iteration of the while loop of lex at index cur: the next index, and the
\* token appended if any
lex_step(prog, cur) ==
    LET c == At(prog, cur)
        n == lex_integer(prog, cur)
        d == lex_identifier(prog, cur)
    IN  IF c \in Whitespace
        THEN [err |-> "", i |-> cur + 1, found |-> FALSE, token |-> NoToken]
        ELSE IF c = ")" \/ c = "("
        THEN [err |-> "", i |-> cur + 1, found |-> TRUE, token |-> Token(<<c>>, "SYNTAX")]
        ELSE IF n.err # "" THEN [err |-> n.err, i |-> cur, found |-> FALSE, token |-> NoToken]
        ELSE IF n.end # cur THEN [err |-> "", i |-> n.end, found |-> TRUE, token |-> n.token]
        ELSE IF d.err # "" THEN [err |-> d.err, i |-> cur, found |-> FALSE, token |-> NoToken]
        ELSE IF d.end # cur THEN [err |-> "", i |-> d.end, found |-> TRUE, token |-> d.token]
        \* fmt is not a name of the module
        ELSE [err |-> "NameError", i |-> cur, found |-> FALSE, token |-> NoToken]

(***************************************************************************)
(* Runtime values: int, bool (the result of <=), None, a builtin function, *)
(* or the closure _lambda_internal over params and body.                   *)
(***************************************************************************)
Value(t, n, name, params, body) ==
    [t |-> t, n |-> n, name |-> name, params |-> params, body |-> body]

IntV(n) == Value("int", n, "", None, None)

BoolV(b) == Value("bool", IF b THEN 1 ELSE 0, "", None, None)

NoneV == Value("None", 0, "", None, None)

BuiltinV(name) == Value("builtin", 0, name, None, None)

LambdaV(params, body) == Value("lambda", 0, "", params, body)

\* a mutant of Truthy: only positive numbers are true
Truthy_positive(v) == IF v.t \in {"int", "bool"} THEN v.n > 0 ELSE v.t # "None"

\* Python truth of a value: `if test`, `if not fn`
Truthy(v) == IF v.t \in {"int", "bool"} THEN v.n # 0 ELSE v.t # "None"

\* int and bool take part in arithmetic and comparison
IsNumber(v) == v.t \in {"int", "bool"}

DigitValue(c) ==
    CASE c = "0" -> 0 [] c = "1" -> 1 [] c = "2" -> 2 [] c = "3" -> 3 [] c = "4" -> 4
      [] c = "5" -> 5 [] c = "6" -> 6 [] c = "7" -> 7 [] c = "8" -> 8 [] c = "9" -> 9

\* int(text) of a string of decimal digits
RECURSIVE int(_)
int(text) ==
    IF Len(text) = 0 THEN 0
    ELSE 10 * int(SubSeq(text, 1, Len(text) - 1)) + DigitValue(text[Len(text)])

BUILTINS ==
    (<<"<", "=">> :> BuiltinV("builtin_lt"))
    @@ (<<"i", "f">> :> BuiltinV("builtin_if"))
    @@ (<<"d", "e", "f">> :> BuiltinV("builtin_def"))
    @@ (<<"l", "a", "m", "b", "d", "a">> :> BuiltinV("builtin_lambda"))
    @@ (<<"b", "e", "g", "i", "n">> :> BuiltinV("builtin_begin"))
    @@ (<<"+">> :> BuiltinV("builtin_plus"))
    @@ (<<"-">> :> BuiltinV("builtin_minus"))

\* ctx[key] = val on a dict
Bind(c, key, val) ==
    [k \in (DOMAIN c) \cup {key} |-> IF k = key THEN val ELSE c[k]]

EmptyCtx == [k \in {} |-> NoneV]

\* Atom("begin"), built by main and by _lambda_internal
BeginAtom == Sexp("ATOM", Token(<<"b", "e", "g", "i", "n">>, "IDENTIFIER"), NoPair)

\* x.pair[0] where x may be None (AttributeError) or an ATOM (pair is None: TypeError)
PairErr(x) ==
    IF x.kind = "NONE" THEN "AttributeError"
    ELSE IF x.kind = "ATOM" THEN "TypeError"
    ELSE ""

\* x.atom.value where x may be None or a PAIR (atom is None)
AtomErr(x) == IF x.kind = "ATOM" THEN "" ELSE "AttributeError"

(***************************************************************************)
(* The arithmetic of the builtins on their evaluated arguments             *)
(***************************************************************************)
RECURSIVE SumN(_)
SumN(vals) == IF Len(vals) = 0 THEN 0 ELSE vals[1].n + SumN(Tail(vals))

AllNumbers(vals) == \A k \in 1..Len(vals) : IsNumber(vals[k])

lt_result(evalled_args) ==
    IF Len(evalled_args) < 2 THEN [err |-> "IndexError", val |-> NoneV]
    ELSE IF ~(IsNumber(evalled_args[1]) /\ IsNumber(evalled_args[2]))
    THEN [err |-> "TypeError", val |-> NoneV]
    ELSE [err |-> "", val |-> BoolV(evalled_args[1].n <= evalled_args[2].n)]

plus_result(args) ==
    IF ~AllNumbers(args) THEN [err |-> "TypeError", val |-> NoneV]
    ELSE [err |-> "", val |-> IntV(SumN(args))]

minus_result(evalled_args) ==
    IF Len(evalled_args) = 0 THEN [err |-> "IndexError", val |-> NoneV]
    ELSE IF Len(evalled_args) = 1 THEN [err |-> "", val |-> evalled_args[1]]
    ELSE IF ~AllNumbers(evalled_args) THEN [err |-> "TypeError", val |-> NoneV]
    ELSE [err |-> "", val |-> IntV(evalled_args[1].n - SumN(Tail(evalled_args)))]

\* the parameter loop of _lambda_internal: binds into child_call_ctx
RECURSIVE bind_params(_, _, _, _)
bind_params(it, evalled_call_args, k, child_call_ctx) ==
    IF it.kind = "NONE" THEN [err |-> "", ctx |-> child_call_ctx]
    \* the right-hand side evalled_call_args[i] is read before the target's key
    ELSE IF k >= Len(evalled_call_args) THEN [err |-> "IndexError", ctx |-> child_call_ctx]
    ELSE IF PairErr(it) # "" THEN [err |-> PairErr(it), ctx |-> child_call_ctx]
    ELSE IF AtomErr(it.pair[1]) # "" THEN [err |-> AtomErr(it.pair[1]), ctx |-> child_call_ctx]
    ELSE bind_params(it.pair[2], evalled_call_args, k + 1,
                     Bind(child_call_ctx, it.pair[1].atom.value, At(evalled_call_args, k)))

\* a mutant of copy_items: the child dict starts empty
copy_items_none(call_ctx) == [key \in {} |-> call_ctx[key]]

\* child_call_ctx before the parameters are bound: the items of call_ctx
copy_items(call_ctx) == [key \in DOMAIN call_ctx |-> call_ctx[key]]

\* a mutant of new_dict: the body runs in the caller's dict object
new_dict_alias(ds, c, d) == [dicts |-> [ds EXCEPT ![c] = d], id |-> c]

\* child_call_ctx = {} makes a dict object of its own, apart from the caller's
\* dicts[c]: the dicts with d added, and its index
new_dict(ds, c, d) == [dicts |-> Append(ds, d), id |-> Len(ds) + 1]

\* a mutant of atom_value: the builtin table is looked up before the dict
atom_value_builtins_first(ast, d) ==
    IF ast.atom.kind = "INTEGER" THEN [err |-> "", val |-> IntV(int(ast.atom.value))]
    ELSE IF ast.atom.value \in DOMAIN BUILTINS
    THEN [err |-> "", val |-> BUILTINS[ast.atom.value]]
    ELSE IF ast.atom.value \in DOMAIN d THEN [err |-> "", val |-> d[ast.atom.value]]
    ELSE [err |-> "Exception: Undefined value", val |-> NoneV]

\* the value of an ATOM in the dict d
atom_value(ast, d) ==
    IF ast.atom.kind = "INTEGER" THEN [err |-> "", val |-> IntV(int(ast.atom.value))]
    ELSE IF ast.atom.value \in DOMAIN d THEN [err |-> "", val |-> d[ast.atom.value]]
    ELSE IF ast.atom.value \notin DOMAIN BUILTINS
    THEN [err |-> "Exception: Undefined value", val |-> NoneV]
    ELSE [err |-> "", val |-> BUILTINS[ast.atom.value]]

(***************************************************************************)
(* The evaluator's calls in progress.  A frame is a call of fn at position *)
(* pos: "fn" (eval_lisp waits for the operator), "args" (the loop of       *)
(* eval_lisp_args run for fn), "test", "value", "loop", or "tail" (the     *)
(* call returns what its callee returns).  saved is the caller's dict as   *)
(* it was when a closure's body started.                                   *)
(***************************************************************************)
Frame(fn, pos, ast, c, vals, val, saved) ==
    [fn |-> fn, pos |-> pos, ast |-> ast, ctx |-> c, vals |-> vals, val |-> val,
     saved |-> saved]

\* next: eval_lisp(ast, c)
CtlEval(ast, c) == [op |-> "eval", ast |-> ast, ctx |-> c, val |-> NoneV]

\* next: hand val to the call on top of estack
CtlRet(val) == [op |-> "ret", ast |-> None, ctx |-> 0, val |-> val]

CtlIdle == [op |-> "idle", ast |-> None, ctx |-> 0, val |-> NoneV]

\* what a step does: an exception, or frames pushed, the next control and the dicts
Out(frames, c, ds) == [err |-> "", frames |-> frames, ctl |-> c, dicts |-> ds]

Throw(e, ds) == [err |-> e, frames |-> <<>>, ctl |-> CtlIdle, dicts |-> ds]

\* fn has its evalled args: the rest of builtin_lt, builtin_plus, builtin_minus, and
\* of _lambda_internal up to the evaluation of the body
finish_args(fn, closure, evalled_args, c, ds) ==
    IF fn = "_lambda_internal"
    THEN LET b == bind_params(closure.params, evalled_args, 0, copy_items(ds[c]))
             n == new_dict(ds, c, b.ctx)
         IN  IF b.err # "" THEN Throw(b.err, ds)
             ELSE Out(<<Frame(fn, "tail", None, c, evalled_args, closure, ds[c])>>,
                      CtlEval(sexp_append(BeginAtom, closure.body), n.id), n.dicts)
    ELSE LET r == CASE fn = "builtin_lt" -> lt_result(evalled_args)
                    [] fn = "builtin_plus" -> plus_result(evalled_args)
                    [] fn = "builtin_minus" -> minus_result(evalled_args)
         IN  IF r.err # "" THEN Throw(r.err, ds) ELSE Out(<<>>, CtlRet(r.val), ds)

\* the start of eval_lisp_args(args, c) run for fn
start_args(fn, closure, args, c, ds) ==
    IF args.kind = "NONE" THEN finish_args(fn, closure, <<>>, c, ds)
    ELSE IF args.kind = "ATOM" THEN Throw("TypeError", ds)
    ELSE Out(<<Frame(fn, "args", args, c, <<>>, closure, EmptyCtx)>>,
             CtlEval(args.pair[1], c), ds)

\* fn(ast.pair[1], ctx) for a truthy fn, up to its first call of eval_lisp
invoke(fn, args, c, ds) ==
    IF fn.t = "lambda" THEN start_args("_lambda_internal", fn, args, c, ds)
    ELSE IF fn.t # "builtin" THEN Throw("TypeError", ds)
    ELSE IF fn.name \in {"builtin_lt", "builtin_plus", "builtin_minus"}
    THEN start_args(fn.name, NoneV, args, c, ds)
    ELSE IF fn.name = "builtin_if"
    THEN IF PairErr(args) # "" THEN Throw(PairErr(args), ds)
         ELSE Out(<<Frame("builtin_if", "test", args, c, <<>>, NoneV, EmptyCtx)>>,
                  CtlEval(args.pair[1], c), ds)
    ELSE IF fn.name = "builtin_def"
    THEN IF PairErr(args) # "" THEN Throw(PairErr(args), ds)
         ELSE IF PairErr(args.pair[2]) # "" THEN Throw(PairErr(args.pair[2]), ds)
         ELSE Out(<<Frame("builtin_def", "value", args, c, <<>>, NoneV, EmptyCtx)>>,
                  CtlEval(args.pair[2].pair[1], c), ds)
    ELSE IF fn.name = "builtin_lambda"
    THEN IF PairErr(args) # "" THEN Throw(PairErr(args), ds)
         ELSE Out(<<>>, CtlRet(LambdaV(args.pair[1], args.pair[2])), ds)
    ELSE \* builtin_begin
         IF args.kind = "NONE" THEN Out(<<>>, CtlRet(NoneV), ds)
         ELSE IF args.kind = "ATOM" THEN Throw("TypeError", ds)
         ELSE Out(<<Frame("builtin_begin", "loop", args, c, <<>>, NoneV, EmptyCtx)>>,
                  CtlEval(args.pair[1], c), ds)

\* eval_lisp(ast, c) up to its first call, or to its return for an ATOM
eval_lisp(ast, c, ds) ==
    IF ast.kind = "NONE" THEN Throw("AttributeError", ds)
    ELSE IF ast.kind = "PAIR"
    THEN Out(<<Frame("eval_lisp", "fn", ast, c, <<>>, NoneV, EmptyCtx)>>,
             CtlEval(ast.pair[1], c), ds)
    ELSE LET r == atom_value(ast, ds[c])
         IN  IF r.err # "" THEN Throw(r.err, ds) ELSE Out(<<>>, CtlRet(r.val), ds)

\* the frame top gets val from its callee: the frames that replace top, and the rest
resume(top, val, ds) ==
    IF top.pos = "tail" THEN Out(<<>>, CtlRet(val), ds)
    ELSE IF top.pos = "fn"
    THEN IF ~Truthy(val)
         THEN Throw(IF pretty(top.ast.pair[1]).err # "" THEN pretty(top.ast.pair[1]).err
                    ELSE "Exception: Unknown def", ds)
         ELSE LET o == invoke(val, top.ast.pair[2], top.ctx, ds)
              IN  IF o.err # "" THEN o
                  ELSE Out(<<[top EXCEPT !.pos = "tail"]>> \o o.frames, o.ctl, o.dicts)
    ELSE IF top.pos = "args"
    THEN LET evalled_args == Append(top.vals, val)
             args == top.ast.pair[2]
         IN  IF args.kind = "NONE"
             THEN finish_args(top.fn, top.val, evalled_args, top.ctx, ds)
             ELSE IF args.kind = "ATOM" THEN Throw("TypeError", ds)
             ELSE Out(<<[top EXCEPT !.ast = args, !.vals = evalled_args]>>,
                      CtlEval(args.pair[1], top.ctx), ds)
    ELSE IF top.pos = "test"
    THEN LET args == top.ast
         IN  IF PairErr(args.pair[2]) # "" THEN Throw(PairErr(args.pair[2]), ds)
             ELSE IF Truthy(val)
             THEN Out(<<[top EXCEPT !.pos = "tail"]>>,
                      CtlEval(args.pair[2].pair[1], top.ctx), ds)
             ELSE IF PairErr(args.pair[2].pair[2]) # ""
             THEN Throw(PairErr(args.pair[2].pair[2]), ds)
             ELSE Out(<<[top EXCEPT !.pos = "tail"]>>,
                      CtlEval(args.pair[2].pair[2].pair[1], top.ctx), ds)
    ELSE IF top.pos = "value"
    THEN IF AtomErr(top.ast.pair[1]) # "" THEN Throw(AtomErr(top.ast.pair[1]), ds)
         ELSE Out(<<>>, CtlRet(val),
                  [ds EXCEPT ![top.ctx] = Bind(ds[top.ctx], top.ast.pair[1].atom.value, val)])
    ELSE \* "loop": builtin_begin
         LET args == top.ast.pair[2]
         IN  IF args.kind = "NONE" THEN Out(<<>>, CtlRet(val), ds)
             ELSE IF args.kind = "ATOM" THEN Throw("TypeError", ds)
             ELSE Out(<<[top EXCEPT !.ast = args]>>, CtlEval(args.pair[1], top.ctx), ds)

(***************************************************************************)
(* lex: one action per iteration of its while loop                         *)
(***************************************************************************)
LexStep ==
    /\ pc = "lex"
    /\ err = ""
    /\ i < Len(program)
    /\ LET s == lex_step(program, i)
       IN  IF s.err # ""
           THEN /\ err' = s.err
                /\ UNCHANGED <<pc, i, tokens>>
           ELSE /\ i' = s.i
                /\ tokens' = IF s.found THEN Append(tokens, s.token) ELSE tokens
                /\ UNCHANGED <<pc, err>>
    /\ UNCHANGED <<program, pstack, start, cursor, child, begin, estack, ctl, dicts,
                   result, stdout>>

\* lex returns tokens; main builds (begin . NIL) and sets cursor
LexReturn ==
    /\ pc = "lex"
    /\ err = ""
    /\ i >= Len(program)
    /\ pc' = "parse"
    /\ begin' = sexp_append(BeginAtom, None)
    /\ cursor' = -1
    /\ UNCHANGED <<program, i, tokens, pstack, start, child, estack, ctl, dicts,
                   result, err, stdout>>

(***************************************************************************)
(* parse: a frame of pstack is a call of parse with its locals; start is   *)
(* the index the call was given.                                           *)
(***************************************************************************)
PFrame(st, cur, siblings) == [start |-> st, cursor |-> cur, siblings |-> siblings]

\* lines 113-118 of a call parse(tokens, st)
parse_enter(toks, st) ==
    IF st >= Len(toks) THEN [err |-> "IndexError", frame |-> PFrame(st, st, None)]
    ELSE IF At(toks, st).value # <<"(">>
    THEN [err |-> "Exception: Expected opening parenthesis", frame |-> PFrame(st, st, None)]
    ELSE [err |-> "", frame |-> PFrame(st, st + 1, None)]

ParseTop == pstack[Len(pstack)]

ParsePop == SubSeq(pstack, 1, Len(pstack) - 1)

\* the loop of parse stops: at a ")" or at the end of the tokens
ParseStops ==
    IF ParseTop.cursor >= Len(tokens) THEN TRUE
    ELSE At(tokens, ParseTop.cursor).value = <<")">>

\* main calls parse(tokens, cursor+1)
ParseCall ==
    /\ pc = "parse"
    /\ err = ""
    /\ pstack = <<>>
    /\ cursor # Len(tokens) - 1
    /\ LET e == parse_enter(tokens, cursor + 1)
       IN  IF e.err # ""
           THEN /\ err' = e.err
                /\ UNCHANGED <<pc, pstack>>
           ELSE /\ pstack' = <<e.frame>>
                /\ UNCHANGED <<pc, err>>
    /\ UNCHANGED <<program, i, tokens, start, cursor, child, begin, estack, ctl, dicts,
                   result, stdout>>

\* the token at cursor is "(": parse calls itself
ParseOpen ==
    /\ pc = "parse"
    /\ err = ""
    /\ pstack # <<>>
    /\ ParseTop.cursor < Len(tokens)
    /\ At(tokens, ParseTop.cursor).value = <<"(">>
    /\ pstack' = Append(pstack, parse_enter(tokens, ParseTop.cursor).frame)
    /\ UNCHANGED <<program, pc, i, tokens, start, cursor, child, begin, estack, ctl,
                   dicts, result, err, stdout>>

\* any other token but ")" is appended as an ATOM
ParseAtom ==
    /\ pc = "parse"
    /\ err = ""
    /\ pstack # <<>>
    /\ ParseTop.cursor < Len(tokens)
    /\ At(tokens, ParseTop.cursor).value \notin {<<"(">>, <<")">>}
    /\ pstack' = Append(ParsePop,
                        PFrame(ParseTop.start, ParseTop.cursor + 1,
                               sexp_append(ParseTop.siblings,
                                           Sexp("ATOM", At(tokens, ParseTop.cursor), NoPair))))
    /\ UNCHANGED <<program, pc, i, tokens, start, cursor, child, begin, estack, ctl,
                   dicts, result, err, stdout>>

\* a nested call returns (cursor, siblings) to the call that made it
ParseReturnNested ==
    /\ pc = "parse"
    /\ err = ""
    /\ Len(pstack) >= 2
    /\ ParseStops
    /\ LET caller == pstack[Len(pstack) - 1]
       IN  pstack' = Append(SubSeq(pstack, 1, Len(pstack) - 2),
                            PFrame(caller.start, ParseTop.cursor + 1,
                                   sexp_append(caller.siblings, ParseTop.siblings)))
    /\ UNCHANGED <<program, pc, i, tokens, start, cursor, child, begin, estack, ctl,
                   dicts, result, err, stdout>>

\* the outermost call returns (cursor, child) to main, which appends child to begin
ParseReturnMain ==
    /\ pc = "parse"
    /\ err = ""
    /\ Len(pstack) = 1
    /\ ParseStops
    /\ start' = ParseTop.start
    /\ cursor' = ParseTop.cursor
    /\ child' = ParseTop.siblings
    /\ begin' = sexp_append(begin, ParseTop.siblings)
    /\ pstack' = <<>>
    /\ UNCHANGED <<program, pc, i, tokens, estack, ctl, dicts, result, err, stdout>>

(***************************************************************************)
(* eval_lisp(begin, {}) and print(result)                                  *)
(***************************************************************************)
\* the loop of main is over: main calls eval_lisp(begin, {})
EvalCall ==
    /\ pc = "parse"
    /\ err = ""
    /\ pstack = <<>>
    /\ cursor = Len(tokens) - 1
    /\ pc' = "eval"
    /\ dicts' = <<EmptyCtx>>
    /\ estack' = <<>>
    /\ ctl' = CtlEval(begin, 1)
    /\ UNCHANGED <<program, i, tokens, pstack, start, cursor, child, begin, result, err,
                   stdout>>

\* the outcome o of a step on the frames base
Apply(base, o) ==
    IF o.err # ""
    THEN /\ err' = o.err
         /\ UNCHANGED <<pc, estack, ctl, dicts>>
    ELSE /\ estack' = base \o o.frames
         /\ ctl' = o.ctl
         /\ dicts' = o.dicts
         /\ UNCHANGED <<pc, err>>

\* a call of eval_lisp starts
EvalStep ==
    /\ pc = "eval"
    /\ err = ""
    /\ ctl.op = "eval"
    /\ Apply(estack, IF Len(estack) >= MaxDepth THEN Throw("RecursionError", dicts)
                     ELSE eval_lisp(ctl.ast, ctl.ctx, dicts))
    /\ UNCHANGED <<program, i, tokens, pstack, start, cursor, child, begin, result,
                   stdout>>

\* a call returns ctl.val to the call on top of estack
EvalResume ==
    /\ pc = "eval"
    /\ err = ""
    /\ ctl.op = "ret"
    /\ estack # <<>>
    /\ Apply(SubSeq(estack, 1, Len(estack) - 1), resume(estack[Len(estack)], ctl.val, dicts))
    /\ UNCHANGED <<program, i, tokens, pstack, start, cursor, child, begin, result,
                   stdout>>

\* eval_lisp(begin, {}) returns to main
EvalReturn ==
    /\ pc = "eval"
    /\ err = ""
    /\ ctl.op = "ret"
    /\ estack = <<>>
    /\ result' = ctl.val
    /\ ctl' = CtlIdle
    /\ pc' = "print"
    /\ UNCHANGED <<program, i, tokens, pstack, start, cursor, child, begin, estack, dicts,
                   err, stdout>>

PrintResult ==
    /\ pc = "print"
    /\ err = ""
    /\ stdout' = Append(stdout, result)
    /\ pc' = "done"
    /\ UNCHANGED <<program, i, tokens, pstack, start, cursor, child, begin, estack, ctl,
                   dicts, result, err>>

Next ==
    \/ LexStep
    \/ LexReturn
    \/ ParseCall
    \/ ParseOpen
    \/ ParseAtom
    \/ ParseReturnNested
    \/ ParseReturnMain
    \/ EvalCall
    \/ EvalStep
    \/ EvalResume
    \/ EvalReturn
    \/ PrintResult

\* the dict main passes to eval_lisp
ctx == dicts[1]

(***************************************************************************)
(* Program texts: every text over Alphabet up to MaxLen characters, and    *)
(* the programs below.                                                     *)
(***************************************************************************)
Alphabet == {"(", ")", " ", "1", "+", "@"}

RECURSIVE Texts(_)
Texts(n) ==
    IF n = 0 THEN {<<>>}
    ELSE LET shorter == Texts(n - 1)
         IN  shorter \cup {Append(t, c) : t \in {u \in shorter : Len(u) = n - 1}, c \in Alphabet}

DigitChar(k) == CHOOSE c \in Digits : DigitValue(c) = k

\* the decimal text of a natural number
RECURSIVE Dec(_)
Dec(n) == IF n < 10 THEN <<DigitChar(n)>> ELSE Dec(n \div 10) \o <<DigitChar(n % 10)>>

\* the decimal texts of numbers, a space before each
RECURSIVE DecList(_)
DecList(ns) == IF Len(ns) = 0 THEN <<>> ELSE <<" ">> \o Dec(ns[1]) \o DecList(Tail(ns))

\* the sequences over S of length at most n
RECURSIVE SeqsUpTo(_, _)
SeqsUpTo(S, n) ==
    IF n = 0 THEN {<<>>}
    ELSE LET shorter == SeqsUpTo(S, n - 1)
         IN  shorter \cup {Append(t, x) : t \in {u \in shorter : Len(u) = n - 1}, x \in S}

\* (def f (lambda (n) (if (<= n 0) 0 (+ n (f (- n 1))))))
RecDef ==
    <<"(", "d", "e", "f", " ", "f", " ", "(", "l", "a", "m", "b", "d", "a", " ", "(",
      "n", ")", " ", "(", "i", "f", " ", "(", "<", "=", " ", "n", " ", "0", ")", " ",
      "0", " ", "(", "+", " ", "n", " ", "(", "f", " ", "(", "-", " ", "n", " ", "1",
      ")", ")", ")", ")", ")", ")">>

\* (def f ...)(f k)
RecText(k) == RecDef \o <<"(", "f", " ">> \o Dec(k) \o <<")">>

\* (def g (lambda () y))(def y k)(g): y is bound after the closure is made
LateDefText(k) ==
    <<"(", "d", "e", "f", " ", "g", " ", "(", "l", "a", "m", "b", "d", "a", " ", "(", ")",
      " ", "y", ")", ")", "(", "d", "e", "f", " ", "y", " ">> \o Dec(k)
    \o <<")", "(", "g", ")">>

\* (def g (lambda () x))(def h (lambda (x) (g)))
CallerParamDef ==
    <<"(", "d", "e", "f", " ", "g", " ", "(", "l", "a", "m", "b", "d", "a", " ", "(",
      ")", " ", "x", ")", ")", "(", "d", "e", "f", " ", "h", " ", "(", "l", "a", "m",
      "b", "d", "a", " ", "(", "x", ")", " ", "(", "g", ")", ")", ")">>

\* (def g ...)(def h ...)(h k): g runs inside the body of h
CallerParamText(k) == CallerParamDef \o <<"(", "h", " ">> \o Dec(k) \o <<")">>

\* (def x 1)(def f (lambda (p) (def y p) (def x 9) (+ x y)))
FrameDef ==
    <<"(", "d", "e", "f", " ", "x", " ", "1", ")", "(", "d", "e", "f", " ", "f", " ",
      "(", "l", "a", "m", "b", "d", "a", " ", "(", "p", ")", " ", "(", "d", "e", "f",
      " ", "y", " ", "p", ")", " ", "(", "d", "e", "f", " ", "x", " ", "9", ")", " ",
      "(", "+", " ", "x", " ", "y", ")", ")", ")">>

\* (def x 1)(def f ...)(f (def z k)): the body binds y and rebinds x
FrameText(k) ==
    FrameDef \o <<"(", "f", " ", "(", "d", "e", "f", " ", "z", " ">> \o Dec(k) \o <<")", ")">>

\* (def g (lambda (q) (def w q)))(def h (lambda (p) (g p) w))
NestedFrameDef ==
    <<"(", "d", "e", "f", " ", "g", " ", "(", "l", "a", "m", "b", "d", "a", " ", "(",
      "q", ")", " ", "(", "d", "e", "f", " ", "w", " ", "q", ")", ")", ")", "(", "d",
      "e", "f", " ", "h", " ", "(", "l", "a", "m", "b", "d", "a", " ", "(", "p", ")",
      " ", "(", "g", " ", "p", ")", " ", "w", ")", ")">>

\* (def g ...)(def h ...)(h k): h reads w after g bound it in its own dict
NestedFrameText(k) == NestedFrameDef \o <<"(", "h", " ">> \o Dec(k) \o <<")">>

ParamNames == <<"a", "b">>

\* the first np parameter names, a space before each
RECURSIVE ParamList(_)
ParamList(np) == IF np = 0 THEN <<>> ELSE ParamList(np - 1) \o <<" ", ParamNames[np]>>

\* (def f (lambda ( a b) (+ 0 a b)))(f args): np parameters, Len(args) arguments
ArityText(np, args) ==
    <<"(", "d", "e", "f", " ", "f", " ", "(", "l", "a", "m", "b", "d", "a", " ", "(">>
    \o ParamList(np) \o <<")", " ", "(", "+", " ", "0">> \o ParamList(np)
    \o <<")", ")", ")", "(", "f">> \o DecList(args) \o <<")">>

\* (- args)
MinusText(args) == <<"(", "-">> \o DecList(args) \o <<")">>

\* (def t 0)(def r (if (begin (def t (+ t 1)) 
IfHead ==
    <<"(", "d", "e", "f", " ", "t", " ", "0", ")", "(", "d", "e", "f", " ", "r", " ",
      "(", "i", "f", " ", "(", "b", "e", "g", "i", "n", " ", "(", "d", "e", "f", " ",
      "t", " ", "(", "+", " ", "t", " ", "1", ")", ")", " ">>
\* ) (def a 1) (def b 2)))
IfTail ==
    <<")", " ", "(", "d", "e", "f", " ", "a", " ", "1", ")", " ", "(", "d", "e", "f",
      " ", "b", " ", "2", ")", ")", ")">>

\* the test expressions of IfText, and whether the value is zero, the empty
\* sentinel or the false result of <=
IfTests ==
    { [text |-> <<"0">>, falsy |-> TRUE],
      [text |-> <<"1">>, falsy |-> FALSE],
      [text |-> <<"2">>, falsy |-> FALSE],
      [text |-> <<"t">>, falsy |-> FALSE],
      [text |-> <<"+">>, falsy |-> FALSE],
      [text |-> <<"(", "b", "e", "g", "i", "n", ")">>, falsy |-> TRUE],
      [text |-> <<"(", "<", "=", " ", "2", " ", "1", ")">>, falsy |-> TRUE],
      [text |-> <<"(", "<", "=", " ", "1", " ", "2", ")">>, falsy |-> FALSE],
      [text |-> <<"(", "-", " ", "0", " ", "1", ")">>, falsy |-> FALSE],
      [text |-> <<"(", "-", " ", "1", " ", "1", ")">>, falsy |-> TRUE],
      [text |-> <<"(", "l", "a", "m", "b", "d", "a", " ", "(", "x", ")", " ", "x", ")">>,
       falsy |-> FALSE] }

\* (def t 0)(def r (if (begin (def t (+ t 1)) test) (def a 1) (def b 2)))
IfText(test) == IfHead \o test.text \o IfTail

LookupNames ==
    { <<"<", "=">>, <<"i", "f">>, <<"d", "e", "f">>, <<"l", "a", "m", "b", "d", "a">>,
      <<"b", "e", "g", "i", "n">>, <<"+">>, <<"-">>,
      <<"*">>, <<"<">>, <<"=">>, <<"&">>, <<"x">>, <<"f", "o", "o", "1">> }

\* (begin name), or (if 1 name) for the name begin, after (def name 5) when bound
LookupText(bound, name) ==
    (IF bound THEN <<"(", "d", "e", "f", " ">> \o name \o <<" ", "5", ")">> ELSE <<>>)
    \o (IF name = <<"b", "e", "g", "i", "n">> THEN <<"(", "i", "f", " ", "1", " ">>
        ELSE <<"(", "b", "e", "g", "i", "n", " ">>)
    \o name \o <<")">>

\* (def sq (lambda (n) (* n n)))
SqText ==
    <<"(", "d", "e", "f", " ", "s", "q", " ", "(", "l", "a", "m", "b", "d", "a", " ",
      "(", "n", ")", " ", "(", "*", " ", "n", " ", "n", ")", ")", ")">>

\* (def sq (lambda (n) (* n n)))(sq 2)
SqCallText == SqText \o <<"(", "s", "q", " ", "2", ")">>

DigitTexts == {<<"7">>, <<"1", "2">>, <<"0", "0", "7">>}

Programs ==
    {RecText(k) : k \in 0..MaxN}
    \cup {LateDefText(k) : k \in 0..MaxN}
    \cup {CallerParamText(k) : k \in 0..MaxN}
    \cup {FrameText(k) : k \in 0..MaxN}
    \cup {NestedFrameText(k) : k \in 0..MaxN}
    \cup {ArityText(np, args) : np \in 0..Len(ParamNames), args \in SeqsUpTo(0..MaxArg, 3)}
    \cup {MinusText(args) : args \in SeqsUpTo(0..MaxArg, 3)}
    \cup {IfText(test) : test \in IfTests}
    \cup {LookupText(bound, name) : bound \in BOOLEAN, name \in LookupNames}
    \cup {SqText, SqCallText}
    \cup DigitTexts

Inputs == Texts(MaxLen) \cup Programs

Init ==
    /\ program \in Inputs
    /\ pc = "lex"
    /\ i = 0
    /\ tokens = <<>>
    /\ pstack = <<>>
    /\ start = -1
    /\ cursor = -1
    /\ child = None
    /\ begin = None
    /\ estack = <<>>
    /\ ctl = CtlIdle
    /\ dicts = <<EmptyCtx>>
    /\ result = NoneV
    /\ err = ""
    /\ stdout = <<>>

Spec == Init /\ [][Next]_vars

\* main has returned, or an exception has ended the run
Terminated == pc = "done" \/ err # ""

(***************************************************************************)
(* Properties                                                              *)
(***************************************************************************)

\* C1: free identifiers of a lambda body resolve in the environment of the call,
\* at call time: (def f (lambda (n) (if (<= n 0) 0 (+ n (f (- n 1))))))(f k) ends
\* with 0 + 1 + ... + k (6 for k = 3) although f is bound after the closure is made,
\* a name bound by def after the closure is made is seen by the body, and a callee
\* run from inside another closure's body sees that caller's parameter.
C1_DynamicScope ==
    Terminated =>
        \A k \in 0..MaxN :
            /\ program = RecText(k) => pc = "done" /\ result = IntV((k * (k + 1)) \div 2)
            /\ program = LateDefText(k) => pc = "done" /\ result = IntV(k)
            /\ program = CallerParamText(k) => pc = "done" /\ result = IntV(k)

C1_Witness == pc = "done" /\ program = RecText(3) /\ result = IntV(6)

\* C2: when the call of a closure returns, the caller's environment is the one it
\* was right after the actual arguments were evaluated: the arguments are evaluated
\* in the caller's environment (z is bound there), and neither the parameter p nor
\* the y and x bound by def in the body reach the caller, at top level or inside
\* another closure's body (h cannot read the w that g bound).
C2_CallerFrame ==
    /\ (pc = "eval" /\ ctl.op = "ret" /\ estack # <<>>) =>
            LET top == estack[Len(estack)]
            IN  (top.fn = "_lambda_internal" /\ top.pos = "tail") =>
                    dicts[top.ctx] = top.saved
    /\ Terminated =>
            \A k \in 0..MaxN :
                /\ program = FrameText(k) =>
                        /\ pc = "done"
                        /\ result = IntV(9 + k)
                        /\ DOMAIN ctx = {<<"x">>, <<"f">>, <<"z">>}
                        /\ ctx[<<"x">>] = IntV(1)
                        /\ ctx[<<"z">>] = IntV(k)
                /\ program = NestedFrameText(k) =>
                        err = "Exception: Undefined value"

C2_Witness ==
    /\ pc = "done"
    /\ program = FrameText(2)
    /\ <<"z">> \in DOMAIN ctx
    /\ <<"y">> \notin DOMAIN ctx

\* C8: if evaluates its test once (t is incremented once) and then one branch:
\* the else branch when the test value is zero, the empty sentinel or the false
\* result of <=, the then branch otherwise; the def of the other branch is not run.
C8_IfOneBranch ==
    Terminated =>
        \A test \in IfTests :
            program = IfText(test) =>
                /\ pc = "done"
                /\ ctx[<<"t">>] = IntV(1)
                /\ IF test.falsy
                   THEN /\ result = IntV(2)
                        /\ <<"b">> \in DOMAIN ctx
                        /\ <<"a">> \notin DOMAIN ctx
                   ELSE /\ result = IntV(1)
                        /\ <<"a">> \in DOMAIN ctx
                        /\ <<"b">> \notin DOMAIN ctx

C8_Witness ==
    /\ pc = "done"
    /\ program = IfText([text |-> <<"0">>, falsy |-> TRUE])
    /\ result = IntV(2)
    /\ <<"a">> \notin DOMAIN ctx

SevenNames ==
    { <<"<", "=">>, <<"i", "f">>, <<"d", "e", "f">>, <<"l", "a", "m", "b", "d", "a">>,
      <<"b", "e", "g", "i", "n">>, <<"+">>, <<"-">> }

\* C9: an identifier evaluates to its binding in the environment when it has one,
\* even when it is also the name of a builtin; otherwise to a builtin when it is one
\* of the seven names <=, if, def, lambda, begin, +, -; otherwise the evaluation
\* fails with "Undefined value".  (def sq (lambda (n) (* n n))) succeeds, and the
\* error for * comes when sq is called.
C9_IdentifierLookup ==
    /\ DOMAIN BUILTINS = SevenNames
    /\ Terminated =>
        /\ \A bound \in BOOLEAN, name \in LookupNames :
                program = LookupText(bound, name) =>
                    IF bound THEN pc = "done" /\ result = IntV(5)
                    ELSE IF name \in SevenNames
                    THEN pc = "done" /\ result.t = "builtin"
                    ELSE err = "Exception: Undefined value"
        /\ program = SqText =>
                pc = "done" /\ result.t = "lambda" /\ <<"s", "q">> \in DOMAIN ctx
        /\ program = SqCallText => err = "Exception: Undefined value"

C9_Witness == pc = "done" /\ program = LookupText(TRUE, <<"+">>) /\ result = IntV(5)

(***************************************************************************)
(* The form a token sequence holds at an index, read off the tokens        *)
(***************************************************************************)
IsOpen(toks, j) == At(toks, j).value = <<"(">>

IsClose(toks, j) == At(toks, j).value = <<")">>

\* the forms opened and not yet closed in the tokens a..b
Balance(toks, a, b) ==
    Cardinality({j \in a..b : IsOpen(toks, j)}) - Cardinality({j \in a..b : IsClose(toks, j)})

\* m holds the ")" that closes the "(" at s
Matches(toks, s, m) ==
    /\ Balance(toks, s, m) = 0
    /\ \A n \in s..(m - 1) : Balance(toks, s, n) # 0

HasMatch(toks, s) == \E m \in (s + 1)..(Len(toks) - 1) : Matches(toks, s, m)

MatchOf(toks, s) == CHOOSE m \in (s + 1)..(Len(toks) - 1) : Matches(toks, s, m)

\* the indices where the siblings of the form at s start
Siblings(toks, s) ==
    {j \in (s + 1)..(MatchOf(toks, s) - 1) : Balance(toks, s, j - 1) = 1}

RECURSIVE ExpectedForm(_, _)
RECURSIVE ExpectedChain(_, _)

\* the chain of Pairs for the siblings at the indices J, in source order
ExpectedChain(toks, J) ==
    IF J = {} THEN None
    ELSE LET j == CHOOSE x \in J : \A y \in J : x <= y
         IN  Sexp("PAIR", NoToken,
                  <<IF IsOpen(toks, j) THEN ExpectedForm(toks, j)
                    ELSE Sexp("ATOM", At(toks, j), NoPair),
                    ExpectedChain(toks, J \ {j})>>)

ExpectedForm(toks, s) == ExpectedChain(toks, Siblings(toks, s))

\* C10: when the "(" at start_index has a matching ")", parse returns the index of
\* that ")" and Nil for an empty form, or else the chain of Pairs ended by Nil whose
\* heads are, in source order, one Atom per sibling token that is no parenthesis
\* and the parsed form per nested form (Nil for "()").
C10_ParseChain ==
    (start >= 0 /\ HasMatch(tokens, start)) =>
        /\ cursor = MatchOf(tokens, start)
        /\ child = ExpectedForm(tokens, start)

C10_Witness ==
    /\ start >= 0
    /\ HasMatch(tokens, start)
    /\ child.kind = "PAIR"
    /\ child.pair[1].kind = "ATOM"
    /\ child.pair[2].kind = "PAIR"
    /\ child.pair[2].pair[1].kind = "PAIR"

RECURSIVE SumOf(_)
SumOf(ns) == IF Len(ns) = 0 THEN 0 ELSE ns[1] + SumOf(Tail(ns))

\* C3 as claimed: a closure applied to fewer or more actual arguments than it has
\* parameters fails instead of producing a value.
C3_ArityMismatchFails ==
    Terminated =>
        \A np \in 0..Len(ParamNames), args \in SeqsUpTo(0..MaxArg, 3) :
            (program = ArityText(np, args) /\ Len(args) # np) => err # ""

\* C4 as claimed: - gives the first argument minus the sum of the rest for two or
\* more arguments, the negation of its argument for one, and an error for none.
C4_MinusNegates ==
    Terminated =>
        \A args \in SeqsUpTo(0..MaxArg, 3) :
            program = MinusText(args) =>
                IF Len(args) = 0 THEN err # ""
                ELSE /\ pc = "done"
                     /\ result = IntV(IF Len(args) = 1 THEN 0 - args[1]
                                      ELSE args[1] - SumOf(Tail(args)))

\* C5 as claimed: the program that is a non-empty string of digits alone runs to
\* the end and yields the integer value of the digits.
C5_IntegerProgram ==
    (Terminated /\ Len(program) > 0 /\ \A k \in 1..Len(program) : program[k] \in Digits) =>
        pc = "done" /\ result = IntV(int(program))

\* C6 as claimed: parse returns no result for a form that has no matching ")", and
\* no token index past the end is read by parse or by main.
C6_UnterminatedFails ==
    /\ start >= 0 => HasMatch(tokens, start)
    /\ ~(pc = "parse" /\ err = "IndexError")

\* C7 as claimed: lex fails only at a character that is none of whitespace, a
\* parenthesis, a digit or an identifier character, and reads no index past the end
\* of the text.
C7_LexTotal ==
    (pc = "lex" /\ err # "") =>
        /\ err # "IndexError"
        /\ i < Len(program)
        /\ At(program, i) \notin
               Whitespace \cup {"(", ")"} \cup Digits \cup Lower \cup Upper \cup Operators

====
